---- MODULE Spec2Model ----
(***************************************************************************)
(* A model of panda3d-toolbox: the Application wrapper around ShowBase     *)
(* (application.py), the developer/production mode predicates and the      *)
(* dynamic has_x/get_x/set_x accessors of the runtime module (runtime.py)  *)
(* and the stdout/stderr tee installed by configure_log_file (logging.py). *)
(*                                                                         *)
(* Three specifications share the module:                                  *)
(*   Spec         the Application life cycle and the mode predicates       *)
(*   SpecRuntime  the runtime module's attribute namespace                 *)
(*   SpecLog      the log redirection                                      *)
(***************************************************************************)
EXTENDS Integers, Sequences, FiniteSets, TLC

\* ------------------------------------------------------------------------
\* Bounds
\* ------------------------------------------------------------------------

\* exit codes handed to set_exit_code range over 0..MaxCode
MaxCode == 2

\* at most MaxSets calls of a set_x accessor are explored
MaxSets == 2

\* integers stored through the accessors range over 0..MaxInt
MaxInt == 1

\* at most MaxWrites messages are written to the streams
MaxWrites == 3

\* ------------------------------------------------------------------------
\* Python values of the Application model
\* ------------------------------------------------------------------------

\* An argument of set_exit_code: the integer n wrapped in `depth` objects
\* that carry a 'value' attribute.  depth = 0 is a plain int, depth = 1 an
\* enum member whose value is n, depth = 2 an object whose value is itself
\* an enum member.
Code(d, i) == [depth |-> d, n |-> i]

CodeArgs == { Code(d, i) : d \in 0..2, i \in 0..MaxCode }

\* hasattr(code, 'value')
HasValueAttr(code) == code.depth > 0

\* code.value
ValueOf(code) == Code(code.depth - 1, code.n)

\* The outcome of a call: a normal return of value v or a raised exception.
Return(v) == [k |-> "return", v |-> v]
Raise(v)  == [k |-> "raise", v |-> v]

VARIABLES
    \* --- environment of the process (application.py / runtime.py) ---
    findSpec,       \* importlib.util.find_spec(__name__) in is_frozen:
                    \*   "raise" | "none" | "no_origin" | "origin"
    interactive,    \* hasattr(sys,'ps1') and hasattr(sys,'ps2')
    prcWantDev,     \* the 'want-dev' PRC variable: "undef" | "true" | "false"
    \* --- program state ---
    dev,            \* builtins.__dev__: "unset" | "true" | "false"
    appPc,          \* "none" (no Application yet) | "idle" | "running"
    exit_code,      \* Application.exit_code
    vfsMount,       \* what configure_virtual_file_system mounted
    appRet,         \* outcome of the last __init__ / execute call
    \* --- history ---
    lastArg,        \* argument of the most recent set_exit_code call
    everSet,        \* whether set_exit_code was ever called
    runOutcome      \* how the last run() ended: "none" | "returned" |
                    \*   "exception" | "systemexit"

appVars == <<findSpec, interactive, prcWantDev, dev, appPc,
             exit_code, vfsMount, appRet, lastArg, everSet, runOutcome>>

VARIABLES
    \* --- runtime module namespace (runtime.py) ---
    mod,            \* the module's __dict__: name -> value, Absent if unbound
    rtRet,          \* outcome of the last access made by client code
    \* --- history ---
    lastSet,        \* name -> value most recently stored by __set_variable
    nsets           \* number of set_x calls made so far

rtVars == <<mod, rtRet, lastSet, nsets>>

VARIABLES
    \* --- streams (logging.py) ---
    sysRedirected,  \* sys.stdout / sys.stderr are the PythonLogHandlers
    nout,           \* outputs of the MultiplexStream given to Notify
    logBuf,         \* log_stream: entries written, not yet flushed
    logFile,        \* the log file on disk
    origBuf,        \* original stdout / stderr: written, not yet flushed
    origOut,        \* original stdout / stderr: flushed
    cout,           \* the process's standard output as the engine writes it
    handlerPc,      \* position inside PythonLogHandler.write:
                    \*   "idle" | "log_flush" | "orig_write" | "orig_flush"
    cur,            \* the entry the running write call is writing
    \* --- history ---
    calls,          \* the write calls made through the handlers, in order
    preConfig,      \* what each original stream was handed before the
                    \*   handlers were installed
    nwrites         \* number of messages written so far

logVars == <<sysRedirected, nout, logBuf, logFile, origBuf, origOut, cout,
             handlerPc, cur, calls, preConfig, nwrites>>

vars == <<appVars, rtVars, logVars>>

\* ------------------------------------------------------------------------
\* runtime.py: mode predicates.  Each yields an outcome record whose value
\* is a BOOLEAN on return and a string naming the exception on raise.
\* ------------------------------------------------------------------------

\* runtime.is_frozen
is_frozen ==
    IF findSpec = "raise" THEN Raise("find_spec")
    ELSE Return(findSpec = "origin")

\* runtime.is_interactive
is_interactive == Return(interactive)

\* is_developer_build without the frozen check
is_developer_build_nofrozen ==
    IF dev = "unset" THEN Raise("AttributeError")
    ELSE Return((dev = "true") \/ is_interactive.v)

\* runtime.is_developer_build:
\*   (builtins.__dev__ or is_interactive()) and not is_frozen()
\* evaluated left to right with Python's short circuits.
is_developer_build ==
    IF dev = "unset" THEN Raise("AttributeError")
    ELSE IF ~((dev = "true") \/ is_interactive.v) THEN Return(FALSE)
    ELSE IF is_frozen.k = "raise" THEN is_frozen
    ELSE Return(~is_frozen.v)

\* runtime.is_production_build: not is_developer_build()
is_production_build ==
    IF is_developer_build.k = "raise" THEN is_developer_build
    ELSE Return(~is_developer_build.v)

\* runtime.is_panda3d_build
is_panda3d_build == is_frozen

\* runtime.is_built_executable
is_built_executable == is_panda3d_build

\* prc.get_prc_bool('want-dev', default)
get_prc_bool_want_dev(default) ==
    IF prcWantDev = "undef" THEN default ELSE prcWantDev = "true"

BoolStr(b) == IF b THEN "true" ELSE "false"

\* ------------------------------------------------------------------------
\* application.py
\* ------------------------------------------------------------------------

\* Application.__init__, when is_built_executable() raises inside
\* set_developer_flag: the exception leaves the constructor.
ConstructFails ==
    /\ appPc = "none"
    /\ is_built_executable.k = "raise"
    /\ appRet' = Raise(Code(0, 0))
    /\ UNCHANGED <<findSpec, interactive, prcWantDev, dev,
                   appPc, exit_code, vfsMount, lastArg, everSet, runOutcome,
                   rtVars, logVars>>

\* Application.__init__: exit_code = 0, set_developer_flag(),
\* configure_virtual_file_system().
Construct ==
    /\ appPc = "none"
    /\ is_built_executable.k = "return"
    /\ exit_code' = Code(0, 0)
    /\ dev' = BoolStr(get_prc_bool_want_dev(is_built_executable.v))
    /\ vfsMount' = IF ~is_built_executable.v THEN "directory" ELSE "multifiles"
    /\ appPc' = "idle"
    /\ appRet' = Return(Code(0, 0))
    /\ UNCHANGED <<findSpec, interactive, prcWantDev,
                   lastArg, everSet, runOutcome,
                   rtVars, logVars>>

\* Application.set_developer_flag, called again on a constructed application
set_developer_flag ==
    /\ appPc # "none"
    /\ is_built_executable.k = "return"
    /\ dev' = BoolStr(get_prc_bool_want_dev(is_built_executable.v))
    /\ UNCHANGED <<findSpec, interactive, prcWantDev, appPc,
                   exit_code, vfsMount, appRet, lastArg, everSet, runOutcome,
                   rtVars, logVars>>

\* set_exit_code storing its argument as given
StoredCode_nounwrap(code) == code

\* The value set_exit_code stores for an argument
StoredCode(code) == IF HasValueAttr(code) THEN ValueOf(code) ELSE code

\* Application.set_exit_code(code); callable before and during run()
set_exit_code(code) ==
    /\ appPc # "none"
    /\ exit_code' = StoredCode(code)
    /\ lastArg' = code
    /\ everSet' = TRUE
    /\ UNCHANGED <<findSpec, interactive, prcWantDev, dev,
                   appPc, vfsMount, appRet, runOutcome,
                   rtVars, logVars>>

\* Application.execute enters self.run()
ExecuteBegin ==
    /\ appPc = "idle"
    /\ appPc' = "running"
    /\ runOutcome' = "none"
    /\ UNCHANGED <<findSpec, interactive, prcWantDev, dev,
                   exit_code, vfsMount, appRet, lastArg, everSet,
                   rtVars, logVars>>

\* run() returns; execute returns self.exit_code
RunReturns ==
    /\ appPc = "running"
    /\ appPc' = "idle"
    /\ runOutcome' = "returned"
    /\ appRet' = Return(exit_code)
    /\ UNCHANGED <<findSpec, interactive, prcWantDev, dev,
                   exit_code, vfsMount, lastArg, everSet,
                   rtVars, logVars>>

\* self.notify.error(message) in the except clause of execute.  self.notify
\* is the direct.directnotify Notifier made by directNotify.newCategory in
\* __init__; Notifier.error(errorString, exception=Exception) writes the
\* message to the log and then raises exception(errorString).
notify_error == Raise("Exception")

\* run() raises an Exception; the handler calls self.notify.error(...)
\* first.  When that call raises, the exception leaves execute and
\* exit_code keeps its value; were it to return, exit_code would become 1
\* and be returned.
RunRaisesException ==
    /\ appPc = "running"
    /\ appPc' = "idle"
    /\ runOutcome' = "exception"
    /\ IF notify_error.k = "raise"
       THEN /\ appRet' = Raise(exit_code)
            /\ UNCHANGED exit_code
       ELSE /\ exit_code' = Code(0, 1)
            /\ appRet' = Return(Code(0, 1))
    /\ UNCHANGED <<findSpec, interactive, prcWantDev, dev,
                   vfsMount, lastArg, everSet,
                   rtVars, logVars>>

\* run() raises a BaseException that is not an Exception (SystemExit from
\* sys.exit, KeyboardInterrupt): the except clause does not match.
RunRaisesSystemExit ==
    /\ appPc = "running"
    /\ appPc' = "idle"
    /\ runOutcome' = "systemexit"
    /\ appRet' = Raise(exit_code)
    /\ UNCHANGED <<findSpec, interactive, prcWantDev, dev,
                   exit_code, vfsMount, lastArg, everSet,
                   rtVars, logVars>>

\* ------------------------------------------------------------------------
\* runtime.py: the module namespace and its dynamic accessors
\* ------------------------------------------------------------------------

\* Python values.  Every value is a record of the same shape: a type tag,
\* an integer payload and a name payload.
Val(t, i, name) == [t |-> t, n |-> i, s |-> name]

None       == Val("None", 0, <<>>)
IntVal(i)     == Val("int", i, <<>>)
Bool(b)    == Val("bool", IF b THEN 1 ELSE 0, <<>>)
Str(name)  == Val("str", 0, name)
\* a module-level or builtin function object
Func(name) == Val("function", 0, name)
\* the closure __getattr__ returns for has_/get_/set_ keys, with the
\* variable name it captured
Lambda(kind, name) == Val(kind, 0, name)
\* an application object stored as runtime.base; attrs says which
\* repository attributes it has: 0 none, 1 air, 2 cr
Obj(attrs) == Val("object", attrs, <<>>)
\* the repository object found on base.air (1) or base.cr (2)
Repo(i)    == Val("repository", i, <<>>)
\* an exception instance
Exc(t)     == Val(t, 0, <<>>)
\* no binding for a name
Absent     == Val("absent", 0, <<>>)

\* bool(value) is False
Falsy(v) == v = None \/ (v.t \in {"int", "bool"} /\ v.n = 0)

\* Names are strings, modelled as sequences of characters.
HAS == <<"h", "a", "s", "_">>
GET == <<"g", "e", "t", "_">>
SET == <<"s", "e", "t", "_">>

N_x == <<"x">>
N_base == <<"b", "a", "s", "e">>
N_repository == <<"r", "e", "p", "o", "s", "i", "t", "o", "r", "y">>
N_executable_name ==
    <<"e", "x", "e", "c", "u", "t", "a", "b", "l", "e", "_", "n", "a", "m", "e">>
N_print == <<"p", "r", "i", "n", "t">>
N_None == <<"N", "o", "n", "e">>

\* The names the model keeps a module binding for: a plain variable, the
\* names of its own three accessors, the two names used by get_repository,
\* and two of the module's own globals.
Vars == { N_x, GET \o N_x, HAS \o N_x, SET \o N_x,
          N_base, N_repository, GET \o N_repository, N_executable_name }

\* The names client code asks about
QueryNames == Vars \cup {N_print, N_None}

\* The values client code stores
SetValues == {None} \cup { IntVal(i) : i \in 0..MaxInt }

\* The builtins module, as far as the model looks into it: print is a
\* function, None is None.
Builtins == [name \in {N_print, N_None} |->
                IF name = N_print THEN Func(N_print) ELSE None]

\* key.startswith(prefix)
StartsWith(key, prefix) ==
    /\ Len(key) >= Len(prefix)
    /\ SubSeq(key, 1, Len(prefix)) = prefix

\* variable_name in __getattr__: key[4:] if len(key) > 4, else key
VariableName(key) == IF Len(key) > 4 THEN SubSeq(key, 5, Len(key)) ELSE key

\* runtime.__getattr__(key), called when the module has no attribute key
__getattr__(key) ==
    LET variable_name == VariableName(key)
        result ==
            IF StartsWith(key, HAS) THEN Lambda("has", variable_name)
            ELSE IF StartsWith(key, GET) THEN Lambda("get", variable_name)
            ELSE IF StartsWith(key, SET) THEN Lambda("set", variable_name)
            ELSE IF key \in DOMAIN Builtins THEN Builtins[key]
            ELSE None
    IN  IF Falsy(result) THEN Raise(Exc("AttributeError")) ELSE Return(result)

\* getattr(module, name): the module's __dict__ first, then __getattr__
ModGetAttr(m, name) ==
    IF name \in DOMAIN m /\ m[name] # Absent THEN Return(m[name])
    ELSE __getattr__(name)

\* hasattr(module, name)
ModHasAttr(m, name) == ModGetAttr(m, name).k = "return"

\* __has_variable answering hasattr alone, without the None comparison
__has_variable_defined(m, variable_name) == ModHasAttr(m, variable_name)

\* runtime.__has_variable
__has_variable(m, variable_name) ==
    LET defined == ModHasAttr(m, variable_name)
    IN  IF defined THEN ModGetAttr(m, variable_name).v # None ELSE FALSE

\* runtime.__get_variable
__get_variable(m, variable_name) ==
    IF ~__has_variable(m, variable_name) THEN None
    ELSE ModGetAttr(m, variable_name).v

\* runtime.__set_variable
__set_variable(m, variable_name, value) ==
    [m EXCEPT ![variable_name] = value]

\* The result of a call: its outcome, the module namespace after it and the
\* name __set_variable stored into (<<>> if it was not reached).
Result(out, m, stored) == [out |-> out, mod |-> m, stored |-> stored]

RECURSIVE Invoke(_, _, _)
RECURSIVE get_repository(_)

\* Client code evaluates runtime.<key>(*args): the attribute is looked up
\* and the value found is called.
Invoke(m, key, args) ==
    LET attr == ModGetAttr(m, key) IN
    IF attr.k = "raise" THEN Result(attr, m, <<>>)
    ELSE LET f == attr.v IN
        IF f.t = "has" THEN
            IF Len(args) # 0 THEN Result(Raise(Exc("TypeError")), m, <<>>)
            ELSE Result(Return(Bool(__has_variable(m, f.s))), m, <<>>)
        ELSE IF f.t = "get" THEN
            IF Len(args) # 0 THEN Result(Raise(Exc("TypeError")), m, <<>>)
            ELSE Result(Return(__get_variable(m, f.s)), m, <<>>)
        ELSE IF f.t = "set" THEN
            IF Len(args) # 1 THEN Result(Raise(Exc("TypeError")), m, <<>>)
            ELSE Result(Return(None), __set_variable(m, f.s, args[1]), f.s)
        ELSE IF f = Func(GET \o N_repository) THEN
            IF Len(args) # 0 THEN Result(Raise(Exc("TypeError")), m, <<>>)
            ELSE Result(get_repository(m), m, <<>>)
        ELSE IF f = Func(N_print) THEN Result(Return(None), m, <<>>)
        ELSE Result(Raise(Exc("TypeError")), m, <<>>)

\* runtime.get_repository
get_repository(m) ==
    LET has_base == Invoke(m, HAS \o N_base, <<>>).out IN
    IF has_base.k = "raise" THEN has_base
    ELSE IF Falsy(has_base.v) THEN Return(None)
    ELSE LET got == Invoke(m, GET \o N_base, <<>>).out IN
        IF got.k = "raise" THEN got
        ELSE IF got.v.t = "object" /\ got.v.n = 1 THEN Return(Repo(1))
        ELSE IF got.v.t = "object" /\ got.v.n = 2 THEN Return(Repo(2))
        ELSE Raise(Exc("AttributeError"))

\* The module namespace after import: executable_name and get_repository
\* are module globals, everything else is unbound.
ModAfterImport ==
    [name \in Vars |->
        IF name = N_executable_name THEN Str(N_executable_name)
        ELSE IF name = GET \o N_repository THEN Func(GET \o N_repository)
        ELSE Absent]

\* client code: runtime.has_<name>()
CallHas(name) ==
    /\ rtRet' = Invoke(mod, HAS \o name, <<>>).out
    /\ UNCHANGED <<mod, lastSet, nsets, appVars, logVars>>

\* client code: runtime.get_<name>()
CallGet(name) ==
    /\ rtRet' = Invoke(mod, GET \o name, <<>>).out
    /\ UNCHANGED <<mod, lastSet, nsets, appVars, logVars>>

\* client code: runtime.set_<name>(value)
CallSet(name, value) ==
    /\ nsets < MaxSets
    /\ LET r == Invoke(mod, SET \o name, <<value>>) IN
        /\ rtRet' = r.out
        /\ mod' = r.mod
        /\ lastSet' = IF r.stored = <<>> THEN lastSet
                      ELSE [lastSet EXCEPT ![r.stored] = value]
    /\ nsets' = nsets + 1
    /\ UNCHANGED <<appVars, logVars>>

\* client code: runtime.<name>, a plain attribute read
ReadAttr(name) ==
    /\ rtRet' = ModGetAttr(mod, name)
    /\ UNCHANGED <<mod, lastSet, nsets, appVars, logVars>>

\* ------------------------------------------------------------------------
\* logging.py: PythonLogHandler and configure_log_file
\* ------------------------------------------------------------------------

Streams == {"stdout", "stderr"}

\* the messages client code writes
Msgs == {"m1", "m2"}

\* The chunks the five print() calls at the end of configure_log_file write
\* to sys.stdout, one entry for each call.
Header == <<"Starting application...", "Current time", "sys.path",
            "sys.argv", "os.environ">>

\* an entry of a stream: the message and the Python stream it was written
\* for ("notify" for the engine's own output)
Entry(h, msg) == [h |-> h, msg |-> msg]

\* both handlers wrapping sys.stdout
HandlerOriginal_stdout(h) == "stdout"

\* The stream a handler wraps: log_output = PythonLogHandler(sys.stdout, ..)
\* is installed as sys.stdout, log_error = PythonLogHandler(sys.stderr, ..)
\* as sys.stderr.
HandlerOriginal(h) == h

\* the entries of a sequence that were written for stream h
EntriesOf(seq, h) == SelectSeq(seq, LAMBDA e : e.h = h)

\* the entries written by the Python handlers
PythonEntries(seq) == SelectSeq(seq, LAMBDA e : e.h \in Streams)

\* the header as written through the new sys.stdout
HeaderEntries == [i \in 1..Len(Header) |-> Entry("stdout", Header[i])]

\* sys.stdout.write / sys.stderr.write before configure_log_file: the
\* stream is still the original one
DirectWrite(h, msg) ==
    /\ handlerPc = "idle"
    /\ ~sysRedirected
    /\ nwrites < MaxWrites
    /\ nwrites' = nwrites + 1
    /\ origBuf' = [origBuf EXCEPT ![h] = Append(@, Entry(h, msg))]
    /\ preConfig' = [preConfig EXCEPT ![h] = Append(@, Entry(h, msg))]
    /\ UNCHANGED <<sysRedirected, nout, logBuf, logFile, origOut, cout,
                   handlerPc, cur, calls, appVars, rtVars>>

\* logging.configure_log_file: opens the log stream, installs the two
\* handlers, points Notify at a MultiplexStream and prints the header.  Each
\* print goes through the new sys.stdout, that is through
\* PythonLogHandler.write, which flushes both streams.
configure_log_file ==
    /\ handlerPc = "idle"
    /\ ~sysRedirected
    /\ sysRedirected' = TRUE
    /\ nout' = {"file", "standard_output", "system_debug"}
    /\ logBuf' = <<>>
    /\ logFile' = logFile \o logBuf \o HeaderEntries
    /\ origBuf' = [origBuf EXCEPT ![HandlerOriginal("stdout")] = <<>>]
    /\ origOut' = [origOut EXCEPT ![HandlerOriginal("stdout")] =
                      @ \o origBuf[HandlerOriginal("stdout")] \o HeaderEntries]
    /\ calls' = calls \o HeaderEntries
    /\ UNCHANGED <<cout, handlerPc, cur, preConfig, nwrites, appVars, rtVars>>

\* PythonLogHandler.write, line 151: self.log_stream.write(message)
HandlerWrite_LogWrite(h, msg) ==
    /\ handlerPc = "idle"
    /\ sysRedirected
    /\ nwrites < MaxWrites
    /\ nwrites' = nwrites + 1
    /\ cur' = Entry(h, msg)
    /\ calls' = Append(calls, Entry(h, msg))
    /\ logBuf' = Append(logBuf, Entry(h, msg))
    /\ handlerPc' = "log_flush"
    /\ UNCHANGED <<sysRedirected, nout, logFile, origBuf, origOut, cout,
                   preConfig, appVars, rtVars>>

\* PythonLogHandler.write, line 152: self.log_stream.flush()
HandlerWrite_LogFlush ==
    /\ handlerPc = "log_flush"
    /\ logFile' = logFile \o logBuf
    /\ logBuf' = <<>>
    /\ handlerPc' = "orig_write"
    /\ UNCHANGED <<sysRedirected, nout, origBuf, origOut, cout, cur, calls,
                   preConfig, nwrites, appVars, rtVars>>

\* PythonLogHandler.write, line 154: self.original.write(message)
HandlerWrite_OrigWrite ==
    /\ handlerPc = "orig_write"
    /\ origBuf' = [origBuf EXCEPT ![HandlerOriginal(cur.h)] = Append(@, cur)]
    /\ handlerPc' = "orig_flush"
    /\ UNCHANGED <<sysRedirected, nout, logBuf, logFile, origOut, cout, cur,
                   calls, preConfig, nwrites, appVars, rtVars>>

\* PythonLogHandler.write, line 155: self.original.flush()
HandlerWrite_OrigFlush ==
    /\ handlerPc = "orig_flush"
    /\ origOut' = [origOut EXCEPT ![HandlerOriginal(cur.h)] =
                      @ \o origBuf[HandlerOriginal(cur.h)]]
    /\ origBuf' = [origBuf EXCEPT ![HandlerOriginal(cur.h)] = <<>>]
    /\ handlerPc' = "idle"
    /\ UNCHANGED <<sysRedirected, nout, logBuf, logFile, cout, cur, calls,
                   preConfig, nwrites, appVars, rtVars>>

\* PythonLogHandler.flush: self.original.flush(); self.log_stream.flush()
HandlerFlush(h) ==
    /\ handlerPc = "idle"
    /\ sysRedirected
    /\ origOut' = [origOut EXCEPT ![HandlerOriginal(h)] =
                      @ \o origBuf[HandlerOriginal(h)]]
    /\ origBuf' = [origBuf EXCEPT ![HandlerOriginal(h)] = <<>>]
    /\ logFile' = logFile \o logBuf
    /\ logBuf' = <<>>
    /\ UNCHANGED <<sysRedirected, nout, cout, handlerPc, cur, calls,
                   preConfig, nwrites, appVars, rtVars>>

\* The engine writes a notifier message to the MultiplexStream set up by
\* configure_log_file: it lands in the same log file and on the process's
\* standard output, bypassing the Python stream objects.
NotifyOut(msg) ==
    /\ handlerPc = "idle"
    /\ nout # {}
    /\ nwrites < MaxWrites
    /\ nwrites' = nwrites + 1
    /\ logFile' = IF "file" \in nout
                  THEN Append(logFile, Entry("notify", msg)) ELSE logFile
    /\ cout' = IF "standard_output" \in nout
               THEN Append(cout, Entry("notify", msg)) ELSE cout
    /\ UNCHANGED <<sysRedirected, nout, logBuf, origBuf, origOut, handlerPc,
                   cur, calls, preConfig, appVars, rtVars>>

\* The streams of a process that has not configured its log file
LogIdle ==
    /\ sysRedirected = FALSE
    /\ nout = {}
    /\ logBuf = <<>>
    /\ logFile = <<>>
    /\ origBuf = [h \in Streams |-> <<>>]
    /\ origOut = [h \in Streams |-> <<>>]
    /\ cout = <<>>
    /\ handlerPc = "idle"
    /\ cur = Entry("stdout", "m1")
    /\ calls = <<>>
    /\ preConfig = [h \in Streams |-> <<>>]
    /\ nwrites = 0

\* The runtime namespace before any accessor call.  An Application built
\* earlier has stored itself as runtime.base (application.py line 38); the
\* application may carry an air or a cr repository.
RtInit ==
    /\ \E b \in {Absent, Obj(0), Obj(1), Obj(2)} :
          mod = [ModAfterImport EXCEPT ![N_base] = b]
    /\ rtRet = Return(None)
    /\ lastSet = [name \in Vars |-> Absent]
    /\ nsets = 0

\* The runtime namespace as the Application specification holds it
RtIdle ==
    /\ mod = ModAfterImport
    /\ rtRet = Return(None)
    /\ lastSet = [name \in Vars |-> Absent]
    /\ nsets = 0

\* The Application state as the other specifications hold it
AppIdle ==
    /\ findSpec = "none"
    /\ interactive = FALSE
    /\ prcWantDev = "undef"
    /\ dev = "unset"
    /\ appPc = "none"
    /\ exit_code = Code(0, 0)
    /\ vfsMount = "none"
    /\ appRet = Return(Code(0, 0))
    /\ lastArg = Code(0, 0)
    /\ everSet = FALSE
    /\ runOutcome = "none"

InitRuntime == AppIdle /\ RtInit /\ LogIdle

NextRuntime ==
    \/ \E name \in QueryNames : CallHas(name)
    \/ \E name \in QueryNames : CallGet(name)
    \/ \E name \in Vars, value \in SetValues : CallSet(name, value)
    \/ \E name \in QueryNames : ReadAttr(name)

SpecRuntime == InitRuntime /\ [][NextRuntime]_vars

InitLog == AppIdle /\ RtIdle /\ LogIdle

NextLog ==
    \/ \E h \in Streams, msg \in Msgs : DirectWrite(h, msg)
    \/ configure_log_file
    \/ \E h \in Streams, msg \in Msgs : HandlerWrite_LogWrite(h, msg)
    \/ HandlerWrite_LogFlush
    \/ HandlerWrite_OrigWrite
    \/ HandlerWrite_OrigFlush
    \/ \E h \in Streams : HandlerFlush(h)
    \/ \E msg \in Msgs : NotifyOut(msg)

SpecLog == InitLog /\ [][NextLog]_vars

Init ==
    /\ findSpec \in {"raise", "none", "no_origin", "origin"}
    /\ interactive \in BOOLEAN
    /\ prcWantDev \in {"undef", "true", "false"}
    /\ dev = "unset"
    /\ appPc = "none"
    /\ exit_code = Code(0, 0)
    /\ vfsMount = "none"
    /\ appRet = Return(Code(0, 0))
    /\ lastArg = Code(0, 0)
    /\ everSet = FALSE
    /\ runOutcome = "none"
    /\ RtIdle
    /\ LogIdle

Next ==
    \/ ConstructFails
    \/ Construct
    \/ set_developer_flag
    \/ \E code \in CodeArgs : set_exit_code(code)
    \/ ExecuteBegin
    \/ RunReturns
    \/ RunRaisesException
    \/ RunRaisesSystemExit

Spec == Init /\ [][Next]_vars

\* ------------------------------------------------------------------------
\* Properties of the Application life cycle and the mode predicates
\* ------------------------------------------------------------------------

\* C1: whenever run() raises an Exception, execute() propagates nothing,
\* sets exit_code to 1 and returns 1, whatever exit code was stored before.
C1_ExecuteReturnsOneOnException ==
    [][(appPc = "running" /\ runOutcome' = "exception")
         => (appRet' = Return(Code(0, 1)) /\ exit_code' = Code(0, 1))]_vars

\* What the claim C2 expects set_exit_code to have stored for an argument:
\* the argument's value attribute if it has one, the argument otherwise.
ExpectedStored(arg) ==
    IF arg.depth = 0 THEN arg ELSE [depth |-> arg.depth - 1, n |-> arg.n]

ExpectedExitCode == IF everSet THEN ExpectedStored(lastArg) ELSE Code(0, 0)

\* C2: the stored exit code is always the one the most recent set_exit_code
\* call determines (code.value for an argument with a 'value' attribute, the
\* argument itself otherwise; 0 if set_exit_code was never called), and
\* when run() returns without raising execute() returns that code.
C2_ExecuteReturnsStoredCode ==
    /\ [](exit_code = ExpectedExitCode)
    /\ [][(appPc = "running" /\ runOutcome' = "returned")
            => appRet' = Return(ExpectedExitCode)]_vars

\* C2 witness: execute returned, after run() returned normally, the once
\* unwrapped value of a doubly wrapped argument.
C2_Witness ==
    /\ appPc = "idle"
    /\ runOutcome = "returned"
    /\ everSet
    /\ lastArg = Code(2, 1)
    /\ appRet = Return(Code(1, 1))

\* C5: is_production_build() is the negation of is_developer_build() in
\* every state, and once the __dev__ flag holds a value a frozen
\* application is never a developer build, whatever the flag and the
\* interactive-prompt check say.
C5_ModesComplementary ==
    /\ is_production_build.k = is_developer_build.k
    /\ is_developer_build.k = "return"
         => is_production_build.v = ~is_developer_build.v
    /\ (dev # "unset" /\ is_frozen = Return(TRUE))
         => is_developer_build = Return(FALSE)

\* C5 witness: a frozen application whose __dev__ flag was set to True by
\* set_developer_flag and which runs from an interactive prompt.
C5_Witness ==
    /\ appPc # "none"
    /\ is_frozen = Return(TRUE)
    /\ dev = "true"
    /\ interactive
    /\ is_developer_build = Return(FALSE)
    /\ is_production_build = Return(TRUE)

\* ------------------------------------------------------------------------
\* Properties of the runtime accessors
\* ------------------------------------------------------------------------

\* what runtime.get_<name>() and runtime.has_<name>() yield in this state
GetOf(name) == Invoke(mod, GET \o name, <<>>).out
HasOf(name) == Invoke(mod, HAS \o name, <<>>).out

\* the value most recently stored under a name by a set accessor
LastSetOf(name) == IF name \in Vars THEN lastSet[name] ELSE Absent

\* the module holds no binding for the name
Unbound(name) == name \notin Vars \/ mod[name] = Absent

Dynamic(name) ==
    \A prefix \in {HAS, GET, SET} : Unbound(prefix \o name)

\* the name is itself spelled like an accessor
AccessorName(name) ==
    StartsWith(name, HAS) \/ StartsWith(name, GET) \/ StartsWith(name, SET)

LogReceived == PythonEntries(logFile) \o logBuf

\* what an original stream object has been handed: flushed and pending
OrigReceived(h) == origOut[h] \o origBuf[h]

\* a write is between its log write and its write to the original stream
InFlight == handlerPc \in {"log_flush", "orig_write"}

\* the writes made through the handler of stream h that have reached the
\* original stream
DeliveredCalls(h) ==
    LET mine == EntriesOf(calls, h)
    IN  IF InFlight /\ cur.h = h THEN SubSeq(mine, 1, Len(mine) - 1)
        ELSE mine

\* C4: once configure_log_file has run, the log stream has received every
\* message written through either handler in the order of the writes, each
\* original stream has received exactly the messages written through its
\* own handler in that order (after what it held before), and when a write
\* reaches the original stream the log stream already holds the message
\* flushed.
C4_LogIsTee ==
    sysRedirected =>
        /\ LogReceived = calls
        /\ \A h \in Streams :
              OrigReceived(h) = preConfig[h] \o DeliveredCalls(h)
        /\ handlerPc = "orig_write" =>
              /\ logBuf = <<>>
              /\ PythonEntries(logFile) = calls
              /\ calls[Len(calls)] = cur

\* C4 witness: after writes through both handlers, a stderr write has been
\* written and flushed to the log and is about to reach the original stderr.
C4_Witness ==
    /\ sysRedirected
    /\ handlerPc = "orig_write"
    /\ cur = Entry("stderr", "m2")
    /\ Len(EntriesOf(calls, "stdout")) > Len(Header)
    /\ Len(EntriesOf(calls, "stderr")) = 1
    /\ OrigReceived("stderr") = <<>>
    /\ logFile[Len(logFile)] = cur

====
